---- MODULE Spec2Model ----
(***************************************************************************)
(* Model of the spyce rocket flight engine (rocket.py) driven by the      *)
(* mission scheduler (gspyce/mission.py).                                  *)
(*                                                                         *)
(* Units.  Time is counted in ticks of 2^-6 s, so the scheduler quantum   *)
(* dt = 2^-5 s is Dt = 2 ticks and accumulated time may be a non-multiple *)
(* of dt.  Throttle n stands for n/ThrottleDen; masses (dry mass,         *)
(* propellant) are counted in 1/ThrottleDen kg, so that                    *)
(* required_propellant = expulsion_rate * dt * throttle is an integer.    *)
(* Vectors are integer pairs <<x, y>> (the z component, always 0 in the   *)
(* flight plane, is dropped).                                              *)
(***************************************************************************)
EXTENDS Integers, Sequences, FiniteSets, TLC

VARIABLES
    rocket,            \* the Rocket object's fields
    satellites,        \* body -> its satellites list
    time,              \* SimulationGUI.time
    accumulated_time,  \* local of MissionGUI.main
    resume_time,       \* rocket.resume_time read by the scheduler
    pc,                \* position of main(): built, equipped, frame, loop, crashed, closed
    edits,             \* number of part-set mutations made after main()'s own
    step,              \* record of the last simulate call (history variable)
    frame              \* record of the current frame's physics loop (history variable)

vars == <<rocket, satellites, time, accumulated_time, resume_time, pc, edits, step, frame>>

----------------------------------------------------------------------------
(* Bounds and program constants *)

Dt == 2
ThrottleDen == 2
MaxTime == 8
MaxElapsed == 5
MaxEdits == 1
StandardGravity == 1

----------------------------------------------------------------------------
(* Math primitives (vector module) *)

Abs(n) == IF n < 0 THEN -n ELSE n
Max(a, b) == IF a > b THEN a ELSE b
Min(a, b) == IF a < b THEN a ELSE b

VAdd(u, v) == <<u[1] + v[1], u[2] + v[2]>>
VSub(u, v) == <<u[1] - v[1], u[2] - v[2]>>
VScale(u, k) == <<u[1] * k, u[2] * k>>
NormSq(u) == u[1] * u[1] + u[2] * u[2]
\* Euclidean norm rounded up to an integer: Norm(u) > k  <=>  |u| > k and
\* Norm(u) <= k  <=>  |u| <= k for every integer k, so comparisons against
\* integer radii are exact.
Norm(u) ==
    CHOOSE n \in 0..(Abs(u[1]) + Abs(u[2])) :
        /\ n * n >= NormSq(u)
        /\ (n = 0 \/ (n - 1) * (n - 1) < NormSq(u))

\* orientation counts eighth turns (45 degrees) in the flight plane; prograde
\* is the orientation applied to the rocket's forward axis, to the nearest
\* integer direction
Prograde(orientation) ==
    CASE orientation % 8 = 0 -> <<1, 0>>
      [] orientation % 8 = 1 -> <<1, 1>>
      [] orientation % 8 = 2 -> <<0, 1>>
      [] orientation % 8 = 3 -> <<-1, 1>>
      [] orientation % 8 = 4 -> <<-1, 0>>
      [] orientation % 8 = 5 -> <<-1, -1>>
      [] orientation % 8 = 6 -> <<0, -1>>
      [] OTHER -> <<1, -1>>

----------------------------------------------------------------------------
(* Orbit model *)

NoBody == "None"
NoOrbit == [primary |-> NoBody, position |-> <<0, 0>>, velocity |-> <<0, 0>>, epoch |-> 0]

Orbit_from_state(primary, position, velocity, epoch) ==
    [primary |-> primary, position |-> position, velocity |-> velocity, epoch |-> epoch]

position_t(o, t) == VAdd(o.position, VScale(o.velocity, t - o.epoch))
velocity_t(o, t) == o.velocity

----------------------------------------------------------------------------
(* Celestial bodies *)

Bodies == {"Sun", "Kerbin", "Mun", "Minmus"}

body ==
    [b \in Bodies |->
        CASE b = "Sun" ->
               [radius |-> 2, surface_velocity |-> 1, sphere_of_influence |-> 14,
                gravitational_parameter |-> 2, orbit |-> NoOrbit,
                satellites |-> <<"Kerbin">>]
          [] b = "Kerbin" ->
               [radius |-> 1, surface_velocity |-> 1, sphere_of_influence |-> 6,
                gravitational_parameter |-> 1,
                orbit |-> Orbit_from_state("Sun", <<10, 0>>, <<0, 1>>, 0),
                satellites |-> <<"Mun", "Minmus">>]
          [] b = "Mun" ->
               [radius |-> 1, surface_velocity |-> 1, sphere_of_influence |-> 2,
                gravitational_parameter |-> 1,
                orbit |-> Orbit_from_state("Kerbin", <<6, 0>>, <<-1, 1>>, 0),
                satellites |-> <<>>]
          [] OTHER ->
               [radius |-> 1, surface_velocity |-> 0, sphere_of_influence |-> 2,
                gravitational_parameter |-> 1,
                orbit |-> Orbit_from_state("Kerbin", <<-5, 0>>, <<1, 1>>, 0),
                satellites |-> <<>>]]

\* gravity(distance): inverse-square acceleration, integer part
gravity(b, distance) == body[b].gravitational_parameter \div (distance * distance)

\* Apsides of an orbit.  An orbit whose specific energy is non-negative
\* (v^2 r >= 2 GM) is open and reports a negative apoapsis; otherwise the
\* semi-major axis a = GM r / (2 GM - v^2 r) gives the two apsides r and
\* 2a - r (exact when the state is itself an apsis).
OrbitGM(o) == body[o.primary].gravitational_parameter
OrbitOpen(o) == NormSq(o.velocity) * Norm(o.position) >= 2 * OrbitGM(o)
SemiMajorAxis(o) ==
    (OrbitGM(o) * Norm(o.position))
        \div (2 * OrbitGM(o) - NormSq(o.velocity) * Norm(o.position))
apoapsis(o) ==
    IF OrbitOpen(o) THEN -1
    ELSE Max(Norm(o.position), 2 * SemiMajorAxis(o) - Norm(o.position))
periapsis(o) ==
    IF OrbitOpen(o) THEN Norm(o.position)
    ELSE Max(0, Min(Norm(o.position), 2 * SemiMajorAxis(o) - Norm(o.position)))

----------------------------------------------------------------------------
(* Rocket parts *)

RocketPart(dry_mass) ==
    \* __init__: make_engine(0., 1.) and make_tank(0.)
    [dry_mass |-> dry_mass, max_thrust |-> 0, specific_impulse |-> 1,
     exhaust_velocity |-> 1 * StandardGravity,
     expulsion_rate |-> 0 \div (1 * StandardGravity), propellant |-> 0]

make_engine(part, max_thrust, specific_impulse) ==
    [part EXCEPT !.max_thrust = max_thrust,
                 !.specific_impulse = specific_impulse,
                 !.exhaust_velocity = specific_impulse * StandardGravity,
                 !.expulsion_rate = max_thrust \div (specific_impulse * StandardGravity)]

make_tank(part, propellant) == [part EXCEPT !.propellant = propellant]

\* the part catalogue: a tank without engine, an engine without tank, and a
\* massless solid booster (engine and tank in one part)
PartNames == {"tank", "engine", "booster"}
part ==
    [n \in PartNames |->
        CASE n = "tank" -> make_tank(RocketPart(2), 8)
          [] n = "engine" -> make_engine(RocketPart(2), 4, 4)
          [] OTHER -> make_tank(make_engine(RocketPart(0), 2, 2), 4)]

RECURSIVE SumOver(_, _)
SumOver(ps, field) ==
    IF ps = {} THEN 0
    ELSE LET n == CHOOSE x \in ps : TRUE
         IN  part[n][field] + SumOver(ps \ {n}, field)

\* variant: the recomputation leaves the propellant as the steps left it
update_parts_keeping_propellant(r) ==
    [r EXCEPT !.dry_mass = SumOver(r.parts, "dry_mass"),
              !.max_thrust = SumOver(r.parts, "max_thrust"),
              !.expulsion_rate = SumOver(r.parts, "expulsion_rate")]

update_parts(r) ==
    [r EXCEPT !.dry_mass = SumOver(r.parts, "dry_mass"),
              !.max_thrust = SumOver(r.parts, "max_thrust"),
              !.expulsion_rate = SumOver(r.parts, "expulsion_rate"),
              !.propellant = SumOver(r.parts, "propellant")]

ior(r, parts) == update_parts([r EXCEPT !.parts = r.parts \cup parts])
isub(r, parts) == update_parts([r EXCEPT !.parts = r.parts \ parts])

----------------------------------------------------------------------------
(* Mission programs.  A program is a generator: a list of code segments,    *)
(* each a list of statements followed either by a yield of a resume         *)
(* predicate or by the end of the generator body.                           *)

END == [kind |-> "end", k |-> 0]
Never == [kind |-> "false", k |-> 0]
Pred(kind, k) == [kind |-> kind, k |-> k]
SetThrottle(v) == [op |-> "throttle", v |-> v]
Rotate(eighths) == [op |-> "rotate", v |-> eighths]
Segment(acts, yields) == [acts |-> acts, yields |-> yields]

\* mission.py program(): launchpad_to_orbit, then the burn to depletion.
\* Distances are scaled to the body table; rotations are rounded to eighth
\* turns (-45 deg -> -1, -20 deg -> 0, 58.0515 deg -> 1).
MissionProgram ==
    << Segment(<<>>, Pred("x_gt", 1)),
       Segment(<<Rotate(-1)>>, Pred("apoapsis_gt", 2)),
       Segment(<<Rotate(-1)>>, Pred("apoapsis_gt", 3)),
       Segment(<<SetThrottle(0)>>, Pred("norm_gt", 3)),
       Segment(<<Rotate(0), SetThrottle(ThrottleDen)>>, Pred("periapsis_gt", 2)),
       Segment(<<SetThrottle(0), SetThrottle(ThrottleDen), Rotate(1)>>,
               Pred("propellant_le_0", 0)),
       Segment(<<SetThrottle(0)>>, END) >>

\* other programs a caller may pass to Rocket(primary, program)
BurnProgram ==       \* raise throttle until apoapsis > 2, then cut it
    << Segment(<<SetThrottle(ThrottleDen)>>, Pred("apoapsis_gt", 2)),
       Segment(<<SetThrottle(0)>>, END) >>
HoldProgram ==       \* coast; one leg whose predicate stays false on the pad
    << Segment(<<SetThrottle(0)>>, Pred("norm_gt", 40)),
       Segment(<<>>, END) >>
PartialProgram ==    \* burn at partial throttle until the tank is empty, then coast
    << Segment(<<SetThrottle(1)>>, Pred("propellant_le_0", 0)),
       Segment(<<SetThrottle(0)>>, Pred("norm_gt", 2)),
       Segment(<<SetThrottle(ThrottleDen)>>, END) >>

ProgramNames == {"none", "mission", "burn", "hold", "partial"}
program_code(p) ==
    CASE p = "mission" -> MissionProgram
      [] p = "burn" -> BurnProgram
      [] p = "hold" -> HoldProgram
      [] p = "partial" -> PartialProgram
      [] OTHER -> <<>>

\* evaluation of a resume predicate (the lambdas the program yields)
resume_condition(r) ==
    LET c == r.resume_condition
    IN  CASE c.kind = "x_gt" -> r.position[1] > c.k
          [] c.kind = "norm_gt" -> Norm(r.position) > c.k
          [] c.kind = "apoapsis_gt" -> apoapsis(r.orbit) > c.k
          [] c.kind = "periapsis_gt" -> periapsis(r.orbit) > c.k
          [] c.kind = "propellant_le_0" -> r.propellant <= 0
          [] OTHER -> FALSE

\* one statement of a program body
Exec(r, act) ==
    IF act.op = "throttle" THEN [r EXCEPT !.throttle = act.v]
    ELSE [r EXCEPT !.orientation = (r.orientation + act.v) % 8]

RECURSIVE ExecAll(_, _)
ExecAll(r, acts) ==
    IF acts = <<>> THEN r ELSE ExecAll(Exec(r, Head(acts)), Tail(acts))

\* next(self.program): run the generator to its next yield.  Returns the
\* rocket and the value yielded, or END when the generator body finishes
\* (StopIteration); a finished generator raises StopIteration at once.
next_program(r) ==
    IF r.cursor >= Len(program_code(r.program))
    THEN [r |-> r, yielded |-> END]
    ELSE LET seg == program_code(r.program)[r.cursor + 1]
         IN  [r |-> [ExecAll(r, seg.acts) EXCEPT !.cursor = r.cursor + 1],
              yielded |-> seg.yields]

----------------------------------------------------------------------------
(* The Rocket object *)

RocketName == "rocket"

\* variant: the constructor does not run the program to its first yield
Rocket_unprimed(primary, program) ==
    LET position == <<body[primary].radius, 0>>
        velocity == <<0, body[primary].surface_velocity>>
    IN  [parts |-> {}, dry_mass |-> 0, max_thrust |-> 0,
         expulsion_rate |-> 0, propellant |-> 0,
         throttle |-> ThrottleDen,
         position |-> position, velocity |-> velocity,
         primary |-> primary,
         orientation |-> 0,
         orbit |-> Orbit_from_state(primary, position, velocity, 0),
         program |-> program, cursor |-> 0,
         resume_condition |-> Never]

Rocket(primary, program) ==
    LET position == <<body[primary].radius, 0>>
        velocity == <<0, body[primary].surface_velocity>>
        \* dry_mass is set by the constructor; max_thrust, expulsion_rate and
        \* propellant do not exist until update_parts first runs (they are
        \* shown as 0 here and are not read before then)
        r0 == [parts |-> {}, dry_mass |-> 0, max_thrust |-> 0,
               expulsion_rate |-> 0, propellant |-> 0,
               throttle |-> ThrottleDen,
               position |-> position, velocity |-> velocity,
               primary |-> primary,
               orientation |-> 0,
               orbit |-> Orbit_from_state(primary, position, velocity, 0),
               program |-> program, cursor |-> 0,
               resume_condition |-> Never]
    IN  IF program = "none" THEN r0
        ELSE LET n == next_program(r0)
             IN  [n.r EXCEPT !.resume_condition = n.yielded]

\* The record of a simulate call: its arguments, what each phase read and
\* produced, and the exception it ended with.  After rocket |= parts or
\* rocket -= parts it holds the operation ("ior" / "isub") and the propellant
\* the rocket had before it.
NoStep ==
    [kind |-> "none", t |-> 0, dt |-> 0, exc |-> "none",
     polled |-> FALSE, resumed |-> FALSE, cursor0 |-> 0, condition0 |-> Never,
     throttle |-> 0, orientation |-> 0,
     propellant0 |-> 0, orbit0 |-> NoOrbit, primary0 |-> NoBody,
     integrated |-> FALSE, required |-> 0, used |-> 0,
     thrust_ratio |-> <<0, 1>>, mass |-> 1, thrust |-> <<0, 0>>,
     position1 |-> <<0, 0>>, velocity1 |-> <<0, 0>>, orbit1 |-> NoOrbit,
     satellites0 |-> <<>>, soi |-> "none"]

\* The state the phases of simulate work on: the rocket, the bodies'
\* satellites lists, the exception in flight, and the step record.
World == [r |-> rocket, sats |-> satellites, exc |-> "none", g |-> NoStep]
Raise(w, e) == [w EXCEPT !.exc = e, !.g.exc = e]

update_orbit(w, epoch) ==
    [w EXCEPT !.r.orbit =
        Orbit_from_state(w.r.primary, w.r.position, w.r.velocity, epoch)]

----------------------------------------------------------------------------
(* update_physics *)

\* integer quotient rounding toward zero
Quot(a, b) == IF a >= 0 THEN a \div b ELSE -((-a) \div b)

\* variant: consumption not clamped to the available amount
used_propellant_unclamped(propellant, required_propellant) ==
    required_propellant

used_propellant(propellant, required_propellant) ==
    Min(propellant, required_propellant)

\* thrust_ratio = throttle * used_propellant / required_propellant, as the
\* fraction <<numerator, denominator>>
\* variant: thrust not scaled down in the quantum where the tank runs dry
thrust_ratio_unscaled(throttle, used, required) ==
    <<throttle * required, ThrottleDen * required>>

thrust_ratio(throttle, used, required) ==
    <<throttle * used, ThrottleDen * required>>

\* thrust for a powered step taken without propellant
no_thrust == <<0, 0>>

\* one step of the integrator on y = position + velocity with derivative
\* f(t, y) = velocity + acceleration, acceleration = gravity + thrust
rk4(w, thrust, dt) ==
    LET r == w.r
        distance == Norm(r.position)
    IN  IF distance = 0 THEN Raise(w, "ZeroDivisionError:164")
        ELSE LET g == gravity(r.primary, distance)
                 acceleration ==
                     VAdd(<<Quot(-g * r.position[1], distance),
                            Quot(-g * r.position[2], distance)>>, thrust)
             IN  [w EXCEPT !.r.position = VAdd(r.position, VScale(r.velocity, dt)),
                           !.r.velocity = VAdd(r.velocity, VScale(acceleration, dt)),
                           !.g.integrated = TRUE,
                           !.g.thrust = thrust]

coast(w, t, dt) ==
    [w EXCEPT !.r.position = position_t(w.r.orbit, t + dt),
              !.r.velocity = velocity_t(w.r.orbit, t + dt)]

propulsion(w, dt) ==
    LET r == w.r
        required_propellant == r.expulsion_rate * dt * r.throttle
        used == used_propellant(r.propellant, required_propellant)
        left == r.propellant - used
        ratio == thrust_ratio(r.throttle, used, required_propellant)
        mass == r.dry_mass + left
        w1 == [w EXCEPT !.r.propellant = left,
                        !.g.required = required_propellant,
                        !.g.used = used]
        w2 == [w1 EXCEPT !.g.thrust_ratio = ratio, !.g.mass = mass]
    IN  IF required_propellant = 0 THEN Raise(w1, "ZeroDivisionError:151")
        ELSE IF mass = 0 THEN Raise(w2, "ZeroDivisionError:153")
        ELSE rk4(w2,
                 VScale(Prograde(r.orientation),
                        (r.max_thrust * ratio[1] * ThrottleDen) \div (ratio[2] * mass)),
                 dt)

\* variant: the integrator is used for coasting steps too
update_physics_always_integrating(w, t, dt) ==
    IF w.r.throttle # 0 /\ w.r.propellant > 0 THEN propulsion(w, dt)
    ELSE rk4(w, no_thrust, dt)

update_physics(w, t, dt) ==
    IF w.r.throttle = 0 THEN coast(w, t, dt)
    ELSE IF w.r.propellant > 0 THEN propulsion(w, dt)
    ELSE rk4(w, no_thrust, dt)

----------------------------------------------------------------------------
(* update_sphere_of_influence *)

Contains(seq, x) == \E i \in 1..Len(seq) : seq[i] = x
\* list.remove(x): drop the first occurrence
RECURSIVE Remove(_, _)
Remove(seq, x) ==
    IF seq = <<>> THEN <<>>
    ELSE IF Head(seq) = x THEN Tail(seq)
    ELSE <<Head(seq)>> \o Remove(Tail(seq), x)

\* the loop body's three `continue` tests for one satellite of the primary
enters(r, satellite, t, dt) ==
    /\ satellite # RocketName
    /\ ~(0 < apoapsis(r.orbit) /\ apoapsis(r.orbit) < periapsis(body[satellite].orbit))
    /\ ~(Norm(VSub(r.position, position_t(body[satellite].orbit, t + dt)))
            > body[satellite].sphere_of_influence)

\* variant: the loop does not stop at the first satellite entered
RECURSIVE entered_last_satellite(_, _, _, _)
entered_last_satellite(r, sats, t, dt) ==
    IF sats = <<>> THEN NoBody
    ELSE IF enters(r, sats[Len(sats)], t, dt) THEN sats[Len(sats)]
    ELSE entered_last_satellite(r, SubSeq(sats, 1, Len(sats) - 1), t, dt)

\* the for loop: the satellite at which the loop body reaches its update
\* and returns, or NoBody when the loop runs to its end
RECURSIVE entered_satellite(_, _, _, _)
entered_satellite(r, sats, t, dt) ==
    IF sats = <<>> THEN NoBody
    ELSE IF enters(r, Head(sats), t, dt) THEN Head(sats)
    ELSE entered_satellite(r, Tail(sats), t, dt)

\* variant: the orbit is not rebuilt after the change of primary
reparent_stale_orbit(w, new_primary, t, dt, kind) ==
    IF ~Contains(w.sats[w.r.primary], RocketName) THEN Raise(w, "ValueError")
    ELSE [w EXCEPT !.sats = [[w.sats EXCEPT ![w.r.primary] = Remove(@, RocketName)]
                                EXCEPT ![new_primary] = Append(@, RocketName)],
                   !.r.primary = new_primary,
                   !.g.soi = kind]

\* move the rocket from its primary's satellites list to new_primary's;
\* list.remove raises ValueError when the rocket is not in the list
reparent(w, new_primary, t, dt, kind) ==
    IF ~Contains(w.sats[w.r.primary], RocketName) THEN Raise(w, "ValueError")
    ELSE LET sats1 == [w.sats EXCEPT ![w.r.primary] = Remove(@, RocketName)]
             sats2 == [sats1 EXCEPT ![new_primary] = Append(@, RocketName)]
         IN  update_orbit([w EXCEPT !.sats = sats2,
                                    !.r.primary = new_primary,
                                    !.g.soi = kind],
                          t + dt)

\* variant: the satellite's state is taken at the start of the step
enter_at_step_start(w, satellite, t, dt) ==
    reparent([w EXCEPT
                !.r.position = VSub(@, position_t(body[satellite].orbit, t)),
                !.r.velocity = VSub(@, velocity_t(body[satellite].orbit, t))],
             satellite, t, dt, "enter")

enter(w, satellite, t, dt) ==
    LET satellite_position == position_t(body[satellite].orbit, t + dt)
        w1 == [w EXCEPT
                 !.r.position = VSub(@, satellite_position),
                 !.r.velocity = VSub(@, velocity_t(body[satellite].orbit, t + dt))]
    IN  reparent(w1, satellite, t, dt, "enter")

escape(w, t, dt) ==
    LET primary == w.r.primary
    IN  IF body[primary].orbit = NoOrbit THEN Raise(w, "AttributeError:131")
        ELSE LET w1 == [w EXCEPT
                          !.r.position = VAdd(@, position_t(body[primary].orbit, t + dt)),
                          !.r.velocity = VAdd(@, velocity_t(body[primary].orbit, t + dt))]
             IN  reparent(w1, body[primary].orbit.primary, t, dt, "escape")

update_sphere_of_influence(w, t, dt) ==
    LET r == w.r
        satellite == entered_satellite(r, w.sats[r.primary], t, dt)
    IN  IF satellite # NoBody THEN enter(w, satellite, t, dt)
        ELSE IF 0 < apoapsis(r.orbit)
                /\ apoapsis(r.orbit) < body[r.primary].sphere_of_influence
             THEN w
        ELSE IF Norm(r.position) > body[r.primary].sphere_of_influence
             THEN escape(w, t, dt)
        ELSE w

----------------------------------------------------------------------------
(* simulate *)

\* if self.resume_condition(): self.resume_condition = next(self.program)
resumed(w, n) ==
    IF n.yielded = END
    THEN Raise([w EXCEPT !.r = n.r, !.g.resumed = TRUE], "StopIteration")
    ELSE [w EXCEPT !.r = [n.r EXCEPT !.resume_condition = n.yielded],
                   !.g.resumed = TRUE]

\* variant: the program is advanced without looking at the predicate
run_program_unconditional(w) == resumed(w, next_program(w.r))

run_program(w) ==
    IF resume_condition(w.r) THEN resumed(w, next_program(w.r)) ELSE w

\* the step record opened at the call
begin_step(w, t, dt) ==
    [w EXCEPT !.g = [NoStep EXCEPT !.kind = "simulate", !.t = t, !.dt = dt,
                       !.polled = TRUE,
                       !.cursor0 = w.r.cursor,
                       !.condition0 = w.r.resume_condition,
                       !.propellant0 = w.r.propellant,
                       !.orbit0 = w.r.orbit,
                       !.primary0 = w.r.primary]]

\* the phases after the program check; an exception raised by a phase
\* leaves simulate, skipping the phases after it
physics_phase(w, t, dt) ==
    IF w.exc # "none" THEN w
    ELSE update_physics([w EXCEPT !.g.throttle = w.r.throttle,
                                  !.g.orientation = w.r.orientation],
                        t, dt)

note_orbit(w) ==
    [w EXCEPT !.g.position1 = w.r.position,
              !.g.velocity1 = w.r.velocity,
              !.g.orbit1 = w.r.orbit,
              !.g.satellites0 = w.sats[w.r.primary]]

orbit_phase(w, t, dt) ==
    IF w.exc # "none" THEN w ELSE note_orbit(update_orbit(w, t + dt))

soi_phase(w, t, dt) ==
    IF w.exc # "none" THEN w ELSE update_sphere_of_influence(w, t, dt)

\* variant: the physics update runs before the program check
simulate_physics_first(w, t, dt) ==
    soi_phase(orbit_phase(run_program(physics_phase(begin_step(w, t, dt), t, dt)),
                          t, dt),
              t, dt)

simulate(w, t, dt) ==
    soi_phase(orbit_phase(physics_phase(run_program(begin_step(w, t, dt)), t, dt),
                          t, dt),
              t, dt)

----------------------------------------------------------------------------
(* MissionGUI.main and main() *)

\* The record of a frame's physics loop: the debt and resume delay it
\* started with, the number of simulate calls made so far, whether every
\* one of them was chosen with throttle = 0, and what the last iteration read.
\* Two totals run over all the calls since the launch: the propellant the
\* calls consumed, and expulsion_rate * throttle * dt summed over the calls
\* whose physics ran with throttle # 0.
NoFrame ==
    [debt0 |-> 0, delay0 |-> 0, calls |-> 0, coasting |-> TRUE,
     throttle |-> 0, debt |-> 0, delay |-> 0, burnt |-> 0, demanded |-> 0]

StartBodies == {"Sun", "Kerbin", "Mun"}
ResumeTimes == {0, 6}

Init ==
    /\ \E primary \in StartBodies, program \in ProgramNames :
           rocket = Rocket(primary, program)
    /\ satellites = [b \in Bodies |-> body[b].satellites]
    /\ time = 0
    /\ accumulated_time = 0
    /\ resume_time \in ResumeTimes
    /\ pc = "built"
    /\ edits = 0
    /\ step = NoStep
    /\ frame = NoFrame

\* main(): rocket |= PartSet().make(...)
Equip(parts) ==
    /\ pc = "built"
    /\ rocket' = ior(rocket, parts)
    /\ pc' = "equipped"
    /\ UNCHANGED <<satellites, time, accumulated_time, resume_time, edits, step, frame>>

\* main(): rocket.orbit.primary.satellites.append(rocket), then sim.main()
Register ==
    /\ pc = "equipped"
    /\ satellites' = [satellites EXCEPT ![rocket.orbit.primary] = Append(@, RocketName)]
    /\ pc' = "frame"
    /\ UNCHANGED <<rocket, time, accumulated_time, resume_time, edits, step, frame>>

\* one pass of the outer loop up to the physics loop: passage of time, and
\* the pause when less than a quantum has accumulated
Frame(elapsed) ==
    /\ pc = "frame"
    /\ time + accumulated_time + elapsed <= MaxTime
    /\ accumulated_time' = accumulated_time + elapsed
    /\ pc' = IF accumulated_time' < Dt THEN "frame" ELSE "loop"
    /\ frame' = IF accumulated_time' < Dt THEN frame
                ELSE [NoFrame EXCEPT !.debt0 = accumulated_time',
                                     !.delay0 = resume_time - time,
                                     !.burnt = frame.burnt,
                                     !.demanded = frame.demanded]
    /\ UNCHANGED <<rocket, satellites, time, resume_time, edits, step>>

\* variant: the coasting step is not raised to at least one quantum
delta_t_without_floor(throttle, accumulated, resume, now) ==
    IF throttle # 0 THEN Dt
    ELSE (Min(accumulated, resume - now) \div Dt) * Dt

\* the step the physics loop hands to simulate
delta_t(throttle, accumulated, resume, now) ==
    IF throttle # 0 THEN Dt
    ELSE LET resume_delay == resume - now
             next_activity == Max(Dt, resume_delay)
         IN  (Min(accumulated, next_activity) \div Dt) * Dt

loop_condition(accumulated) == accumulated > Dt

\* the end of an iteration: the clock advances once simulate has returned
finish_iteration(d, w) ==
    /\ accumulated_time' = accumulated_time - d
    /\ rocket' = w.r
    /\ satellites' = w.sats
    /\ step' = w.g
    /\ time' = IF w.exc = "none" THEN time + d ELSE time
    /\ pc' = IF w.exc = "none" THEN "loop" ELSE "crashed"
    /\ frame' = [frame EXCEPT !.calls = @ + 1,
                              !.coasting = @ /\ rocket.throttle = 0,
                              !.throttle = rocket.throttle,
                              !.debt = accumulated_time,
                              !.delay = resume_time - time,
                              !.burnt = @ + rocket.propellant - w.r.propellant,
                              !.demanded = @ + w.r.expulsion_rate * d * w.g.throttle]

\* variant: simulate is handed the clock after it has moved
iterate_after_clock(d) == finish_iteration(d, simulate(World, time + d, d))

iterate(d) == finish_iteration(d, simulate(World, time, d))

\* one iteration of the physics loop
LoopStep ==
    /\ pc = "loop"
    /\ loop_condition(accumulated_time)
    /\ iterate(delta_t(rocket.throttle, accumulated_time, resume_time, time))
    /\ UNCHANGED <<resume_time, edits>>

\* the physics loop ends; self.update() redraws
LoopExit ==
    /\ pc = "loop"
    /\ ~loop_condition(accumulated_time)
    /\ pc' = "frame"
    /\ UNCHANGED <<rocket, satellites, time, accumulated_time, resume_time, edits, step, frame>>

\* rocket |= parts and rocket -= parts between frames
Install(parts) ==
    /\ pc = "frame" /\ edits < MaxEdits
    /\ rocket' = ior(rocket, parts)
    /\ edits' = edits + 1
    /\ step' = [NoStep EXCEPT !.kind = "ior", !.propellant0 = rocket.propellant]
    /\ UNCHANGED <<satellites, time, accumulated_time, resume_time, pc, frame>>

Uninstall(parts) ==
    /\ pc = "frame" /\ edits < MaxEdits
    /\ rocket' = isub(rocket, parts)
    /\ edits' = edits + 1
    /\ step' = [NoStep EXCEPT !.kind = "isub", !.propellant0 = rocket.propellant]
    /\ UNCHANGED <<satellites, time, accumulated_time, resume_time, pc, frame>>

\* is_running becomes false
Close ==
    /\ pc = "frame"
    /\ pc' = "closed"
    /\ UNCHANGED <<rocket, satellites, time, accumulated_time, resume_time, edits, step, frame>>

Next ==
    \/ \E parts \in SUBSET PartNames : Equip(parts)
    \/ Register
    \/ \E elapsed \in 0..MaxElapsed : Frame(elapsed)
    \/ LoopStep
    \/ LoopExit
    \/ \E parts \in SUBSET PartNames : Install(parts)
    \/ \E parts \in SUBSET PartNames : Uninstall(parts)
    \/ Close

Spec == Init /\ [][Next]_vars

----------------------------------------------------------------------------
(* Properties *)

Called == step.kind = "simulate"
Returned == Called /\ step.exc = "none"
\* the call ran its physics phase with the engine on / off
Powered == Called /\ step.exc # "StopIteration" /\ step.throttle # 0
Coasted == Called /\ step.exc # "StopIteration" /\ step.throttle = 0
\* the call resumed a program that had no further yield
Exhausted ==
    Called /\ step.resumed /\ rocket.cursor = Len(program_code(rocket.program))

\* C1: a simulate call whose resume condition is true while the program has
\* no further legs does not fail: it returns normally and leaves the
\* constant-false predicate as the active resume condition.
C1_ExhaustionAbsorbed ==
    Exhausted => (step.exc = "none" /\ rocket.resume_condition = Never)

\* C2: a powered step of a rocket whose expulsion rate is 0 never divides by
\* zero, whatever its propellant: update_physics completes.
C2_ZeroRateNoDivision ==
    (Powered /\ rocket.expulsion_rate = 0) => step.exc # "ZeroDivisionError:151"

\* C3: over the simulate calls of the physics loop, propellant is never
\* negative and never larger after a call than before it.
C3_PropellantMonotone ==
    [][pc = "loop" =>
          (rocket'.propellant >= 0 /\ rocket'.propellant <= rocket.propellant)]_vars
\* a call in which the clamp was needed: less propellant than required
C3_Witness ==
    Returned /\ Powered /\ step.propellant0 > 0
    /\ step.propellant0 < step.required /\ rocket.propellant = 0

\* the powered call that took propellant from a positive amount to zero
Depleting == Powered /\ step.propellant0 > 0 /\ rocket.propellant = 0
DepletingReturned == Returned /\ Depleting
\* a powered call that started with an empty tank
Dry == Powered /\ step.exc = "none" /\ step.propellant0 = 0

\* C4 (as claimed): the step in which propellant goes from positive to zero
\* has thrust_ratio < 1, and a later powered step with zero propellant
\* applies zero thrust.
C4_DepletionRatioBelowOne ==
    /\ DepletingReturned => step.thrust_ratio[1] < step.thrust_ratio[2]
    /\ Dry => step.thrust = <<0, 0>>
\* C4 (amended): in the depleting step thrust_ratio is at most 1, and it is
\* exactly 1 precisely when the throttle is full and the starting propellant
\* equals the step's required propellant; otherwise it is below the throttle
\* setting or the throttle is partial, hence below 1.  A powered step with
\* zero propellant applies zero thrust.
C4_DepletionRatio ==
    /\ Depleting =>
          /\ step.thrust_ratio[1] <= step.thrust_ratio[2]
          /\ (step.thrust_ratio[1] = step.thrust_ratio[2])
                <=> (step.throttle = ThrottleDen /\ step.propellant0 = step.required)
    /\ Dry => step.thrust = <<0, 0>>
C4_Witness ==
    Depleting /\ step.exc = "none" /\ step.throttle = ThrottleDen
    /\ step.propellant0 = step.required

\* C5: at every observation point the rocket's primary's satellites list
\* holds the rocket (once), and no other body's list holds it.
C5_RocketInPrimarySatellites ==
    \A b \in Bodies :
        Cardinality({i \in 1..Len(satellites[b]) : satellites[b][i] = RocketName})
            = IF b = rocket.primary THEN 1 ELSE 0

\* C6: an SOI transition is frame-consistent: on entering sibling S the new
\* state is the post-physics state minus S's orbit state at t + dt and S is
\* the primary; on escaping primary P it is the post-physics state plus P's
\* orbit state at t + dt and P's own primary is the primary.
C6_FrameConsistent ==
    /\ (Returned /\ step.soi = "enter") =>
          /\ Contains(step.satellites0, rocket.primary)
          /\ rocket.position =
                VSub(step.position1,
                     position_t(body[rocket.primary].orbit, step.t + step.dt))
          /\ rocket.velocity =
                VSub(step.velocity1,
                     velocity_t(body[rocket.primary].orbit, step.t + step.dt))
    /\ (Returned /\ step.soi = "escape") =>
          /\ rocket.primary = body[step.primary0].orbit.primary
          /\ rocket.position =
                VAdd(step.position1,
                     position_t(body[step.primary0].orbit, step.t + step.dt))
          /\ rocket.velocity =
                VAdd(step.velocity1,
                     velocity_t(body[step.primary0].orbit, step.t + step.dt))
C6_Witness ==
    /\ Returned /\ step.soi = "enter"
    /\ position_t(body[rocket.primary].orbit, step.t + step.dt)
          # position_t(body[rocket.primary].orbit, step.t)

\* the indices of the old primary's satellites that the rocket, in its
\* post-physics state, is inside of and that the apsis shortcut does not skip
Qualifying ==
    {i \in 1..Len(step.satellites0) :
        enters([position |-> step.position1, orbit |-> step.orbit1],
               step.satellites0[i], step.t, step.dt)}

\* C7: one update_sphere_of_influence call changes the primary at most once:
\* an entry goes to the first qualifying sibling in list order, an escape
\* happens only when no sibling qualifies and goes to the old primary's
\* primary, and otherwise the primary is unchanged.
C7_OneTransition ==
    Returned =>
        CASE step.soi = "enter" ->
               /\ Qualifying # {}
               /\ rocket.primary =
                     step.satellites0[CHOOSE i \in Qualifying :
                                         \A j \in Qualifying : i <= j]
          [] step.soi = "escape" ->
               /\ Qualifying = {}
               /\ rocket.primary = body[step.primary0].orbit.primary
          [] OTHER ->
               /\ Qualifying = {}
               /\ rocket.primary = step.primary0
C7_Witness ==
    Returned /\ step.soi = "enter" /\ Cardinality(Qualifying) > 1

\* C8: when a simulate(t, dt) call returns, the orbit is the one built from
\* the rocket's current primary, position and velocity with epoch t + dt.
C8_OrbitFresh ==
    Returned =>
        rocket.orbit = Orbit_from_state(rocket.primary, rocket.position,
                                        rocket.velocity, step.t + step.dt)
C8_Witness ==
    Returned /\ step.soi # "none" /\ rocket.orbit # step.orbit1

\* C9: a step taken with throttle = 0 and no SOI crossing leaves the rocket
\* at the closed-form state of the orbit held before the step, evaluated at
\* t + dt, without using the integrator and without touching the propellant.
C9_CoastClosedForm ==
    (Returned /\ Coasted /\ step.soi = "none") =>
        /\ rocket.position = position_t(step.orbit0, step.t + step.dt)
        /\ rocket.velocity = velocity_t(step.orbit0, step.t + step.dt)
        /\ ~step.integrated
        /\ rocket.propellant = step.propellant0
C9_Witness ==
    /\ Returned /\ Coasted /\ step.soi = "none" /\ step.dt > Dt
    /\ step.orbit0.velocity # <<0, 0>> /\ step.propellant0 > 0

\* number of simulate calls the physics loop makes to work off a debt with
\* the engine on throughout
RECURSIVE powered_calls(_)
powered_calls(debt) ==
    IF loop_condition(debt)
    THEN 1 + powered_calls(debt - delta_t(ThrottleDen, debt, 0, 0))
    ELSE 0

LoopEnded == pc = "loop" /\ ~loop_condition(accumulated_time)

\* C10: each simulate call gets one quantum when the throttle is not 0 and
\* otherwise the largest multiple of dt not exceeding
\* min(debt, max(dt, resume_time - time)); so a coasting frame needs no more
\* calls than a powered one for the same debt, and strictly fewer when the
\* debt and the time to resume are both at least 2 dt.
C10_StepChoice ==
    /\ (Called /\ frame.calls > 0 /\ frame.throttle # 0) => step.dt = Dt
    /\ (Called /\ frame.calls > 0 /\ frame.throttle = 0) =>
          /\ step.dt % Dt = 0
          /\ step.dt <= Min(frame.debt, Max(Dt, frame.delay))
          /\ step.dt + Dt > Min(frame.debt, Max(Dt, frame.delay))
    /\ frame.coasting => frame.calls <= powered_calls(frame.debt0)
    /\ (LoopEnded /\ frame.coasting /\ frame.debt0 >= 2 * Dt /\ frame.delay0 >= 2 * Dt)
          => frame.calls < powered_calls(frame.debt0)

\* C11: a frame that reaches the physics loop with debt >= dt (a debt of
\* exactly dt included) makes at least one simulate call, and when its loop
\* ends the remaining debt is strictly less than dt.
C11_LoopRunsAndDrains ==
    LoopEnded => (frame.calls >= 1 /\ accumulated_time < Dt)

\* a step of the physics loop that is a simulate call
SimulateCall == pc = "loop" /\ pc' # "frame"
\* the leg the program is suspended before, when it has one
NextLeg == program_code(rocket.program)[rocket.cursor + 1]

\* C12: every simulate call polls the active resume predicate once; if it is
\* true the program advances by exactly one leg (the leg's action runs and
\* the predicate it yields becomes the active one), and if it is false the
\* program cursor, the active predicate, the throttle and the orientation
\* are unchanged.
C12_OneLegPerCall ==
    [][SimulateCall =>
          /\ step'.polled
          /\ IF resume_condition(rocket)
             THEN /\ rocket.cursor < Len(program_code(rocket.program))
                  /\ rocket'.cursor = rocket.cursor + 1
                  /\ rocket'.resume_condition = NextLeg.yields
                  /\ rocket'.throttle = ExecAll(rocket, NextLeg.acts).throttle
                  /\ rocket'.orientation = ExecAll(rocket, NextLeg.acts).orientation
             ELSE /\ rocket'.cursor = rocket.cursor
                  /\ rocket'.resume_condition = rocket.resume_condition
                  /\ rocket'.throttle = rocket.throttle
                  /\ rocket'.orientation = rocket.orientation]_vars

\* the escape test of the SOI check, on the state the step recorded after
\* its physics and orbit phases
EscapeTest ==
    /\ ~(0 < apoapsis(step.orbit1)
         /\ apoapsis(step.orbit1) < body[step.primary0].sphere_of_influence)
    /\ Norm(step.position1) > body[step.primary0].sphere_of_influence

\* C13: a simulate(t, dt) call that returns has run the program check, the
\* physics update, the orbit recomputation and the SOI check, in that order:
\* the physics used the throttle and orientation left by the program check,
\* the orbit was rebuilt from the state the physics produced, and the SOI
\* check decided on that post-physics position and that fresh orbit.
C13_PhaseOrder ==
    Returned =>
        /\ step.throttle = rocket.throttle
        /\ step.orientation = rocket.orientation
        /\ (step.integrated /\ step.propellant0 > 0) =>
              /\ step.required = rocket.expulsion_rate * step.dt * rocket.throttle
              /\ step.thrust =
                    VScale(Prograde(rocket.orientation),
                           (rocket.max_thrust * step.thrust_ratio[1] * ThrottleDen)
                               \div (step.thrust_ratio[2] * step.mass))
        /\ step.position1 =
              IF step.integrated
              THEN VAdd(step.orbit0.position, VScale(step.orbit0.velocity, step.dt))
              ELSE position_t(step.orbit0, step.t + step.dt)
        /\ step.orbit1 = Orbit_from_state(step.primary0, step.position1,
                                          step.velocity1, step.t + step.dt)
        /\ (step.soi = "enter") <=> (Qualifying # {})
        /\ (step.soi = "escape") <=> (Qualifying = {} /\ EscapeTest)
\* the first call resumes a leg that turns the rocket, and the thrust of the
\* same call points along the new orientation
C13_Witness ==
    /\ Returned /\ step.t = 0 /\ step.resumed
    /\ step.orientation # 0 /\ step.thrust # <<0, 0>>
    /\ \E k \in 1..(rocket.max_thrust * ThrottleDen) :
          /\ step.thrust = VScale(Prograde(rocket.orientation), k)
          /\ step.thrust # VScale(Prograde(0), k)

\* the sum of a field over a set of catalogue parts, each counted once
Total(ps, field) ==
    (IF "tank" \in ps THEN part["tank"][field] ELSE 0)
    + (IF "engine" \in ps THEN part["engine"][field] ELSE 0)
    + (IF "booster" \in ps THEN part["booster"][field] ELSE 0)
Aggregated(r) ==
    /\ r.dry_mass = Total(r.parts, "dry_mass")
    /\ r.max_thrust = Total(r.parts, "max_thrust")
    /\ r.expulsion_rate = Total(r.parts, "expulsion_rate")
    /\ r.propellant = Total(r.parts, "propellant")
Edited == pc = "equipped" \/ step.kind \in {"ior", "isub"}

\* C14: after every install (|=) and removal (-=), from any state the rocket
\* has reached, dry mass, max thrust, expulsion rate and propellant equal the
\* sums over the installed set of parts, each part counted once; installing
\* parts that are already installed leaves the part set as it was; and the
\* propellant is the tanks' total whatever earlier steps consumed.
C14_PartsAggregated ==
    /\ Edited => Aggregated(rocket)
    /\ \A parts \in SUBSET PartNames :
          /\ ior(rocket, parts).parts = rocket.parts \cup parts
          /\ isub(rocket, parts).parts = rocket.parts \ parts
          /\ Aggregated(ior(rocket, parts))
          /\ Aggregated(isub(rocket, parts))
          /\ parts \subseteq rocket.parts =>
                /\ ior(rocket, parts).parts = rocket.parts
                /\ ior(rocket, parts).propellant = Total(rocket.parts, "propellant")
\* parts installed on a tank-and-engine rocket that had burnt part of its
\* propellant: the tank is full again
C14_Witness ==
    /\ step.kind = "ior" /\ rocket.parts = {"tank", "engine"}
    /\ 0 < step.propellant0 /\ step.propellant0 < part["tank"].propellant
    /\ rocket.propellant = part["tank"].propellant

\* the call in which the 2-leg program ran its second leg (throttle := 0)
CutStep ==
    Called /\ rocket.program = "burn" /\ step.resumed /\ step.cursor0 = 1
\* the propellant one quantum draws at the raised throttle
Quantum == rocket.expulsion_rate * Dt * ThrottleDen
Loaded == Total(rocket.parts, "propellant")
\* the throttle of the 2-leg program is 0 only from its cut step on, and the
\* program check of that step saw apoapsis > X on the orbit it started with
CutOnApoapsis ==
    /\ (rocket.program = "burn" /\ rocket.throttle = 0) => rocket.cursor = 2
    /\ CutStep =>
          /\ step.condition0 = Pred("apoapsis_gt", 2)
          /\ apoapsis(step.orbit0) > step.condition0.k
          /\ rocket.throttle = 0

FirstSegment == program_code(rocket.program)[1]
\* the program has not been resumed since the construction
Unresumed == rocket.cursor = 1 /\ (Called => ~step.resumed)

\* C16: a rocket built with a program has run it to its first yield before
\* any simulate call, and the predicate yielded there is the active resume
\* condition until a call finds it true; a rocket built without a program
\* holds the constant-false condition, and no simulate call advances the
\* absent program or fails on it.
C16_Primed ==
    /\ (rocket.program # "none" /\ pc = "built") =>
          /\ step = NoStep
          /\ rocket.cursor = 1
          /\ rocket.resume_condition = FirstSegment.yields
          /\ rocket.throttle =
                ExecAll([throttle |-> ThrottleDen, orientation |-> 0],
                        FirstSegment.acts).throttle
          /\ rocket.orientation =
                ExecAll([throttle |-> ThrottleDen, orientation |-> 0],
                        FirstSegment.acts).orientation
    /\ (rocket.program # "none" /\ Unresumed) =>
          rocket.resume_condition = FirstSegment.yields
    /\ (rocket.program # "none" /\ Called /\ step.t = 0) =>
          (step.cursor0 = 1 /\ step.condition0 = FirstSegment.yields)
    /\ rocket.program = "none" =>
          /\ rocket.cursor = 0
          /\ rocket.resume_condition = Never
          /\ ~resume_condition(rocket)
          /\ Called => (step.polled /\ ~step.resumed /\ step.exc # "StopIteration")
\* the first simulate call of a rocket built with the mission program polls
\* the predicate of the program's first yield, and finds it false
C16_Witness ==
    /\ Called /\ step.t = 0 /\ rocket.program = "mission"
    /\ step.condition0 = Pred("x_gt", 1) /\ ~step.resumed
    /\ rocket.cursor = 1

\* C17: the time debt is never negative; every iteration of the physics
\* loop hands simulate the clock value from before the iteration and the
\* step it takes from the debt, and an iteration that completes leaves
\* time + debt as it was, the step having moved from the debt to the clock.
C17_DebtConserved ==
    [][/\ accumulated_time' >= 0
       /\ SimulateCall =>
             /\ step'.t = time
             /\ step'.dt = accumulated_time - accumulated_time'
       /\ (SimulateCall /\ pc' = "loop") =>
             /\ time' = time + step'.dt
             /\ time' + accumulated_time' = time + accumulated_time]_vars
\* a coasting iteration, the clock already running, that moved several
\* quanta at once and left some debt
C17_Witness ==
    /\ Returned /\ pc = "loop"
    /\ step.t > 0 /\ step.dt > Dt /\ time = step.t + step.dt
    /\ accumulated_time > 0

\* C18: the physics loop of a frame terminates: every iteration, powered or
\* coasting, whatever resume_time - time is, takes a step that is a multiple
\* of dt and at least dt out of the debt, so the debt strictly decreases and
\* stays >= 0; a frame that entered the loop with debt D has made at most
\* (D - debt) / dt iterations, hence at most D / dt when the loop is left.
C18_LoopTerminates ==
    [][SimulateCall =>
          /\ step'.dt >= Dt
          /\ step'.dt % Dt = 0
          /\ accumulated_time' = accumulated_time - step'.dt
          /\ accumulated_time' >= 0
          /\ frame'.calls = frame.calls + 1
          /\ frame'.calls * Dt <= frame'.debt0 - accumulated_time']_vars
\* a coasting iteration taken when resume_time was already in the past
C18_Witness ==
    /\ Called /\ pc = "loop" /\ frame.calls >= 2
    /\ frame.throttle = 0 /\ frame.delay < 0 /\ step.dt = Dt

\* the primary the call started with is a root body: it has no orbit
RootPrimary == Called /\ body[step.primary0].orbit = NoOrbit

\* C19: no simulate call fails or loses its primary because of an escape:
\* the escape branch is taken only when the primary has an orbit and a
\* primary of its own, and a rocket beyond the sphere of influence of a root
\* body keeps that body as its primary.
C19_RootEscapeGuarded ==
    /\ Called => (step.exc # "AttributeError:131" /\ rocket.primary # NoBody)
    /\ (Called /\ step.soi = "escape") =>
          (body[step.primary0].orbit # NoOrbit
           /\ body[step.primary0].orbit.primary # NoBody)
    /\ (RootPrimary /\ step.exc # "StopIteration"
        /\ Norm(rocket.position) > body[step.primary0].sphere_of_influence) =>
          (step.exc = "none" /\ rocket.primary = step.primary0)

\* the call computed the thrust of a step that drew propellant
Thrusting == Powered /\ step.propellant0 > 0 /\ step.required > 0

\* C20: whenever a powered step computes its thrust acceleration, the mass
\* it divides by, dry_mass + propellant left after the step's consumption,
\* is strictly positive, for every installed part set.
C20_MassPositive ==
    Thrusting =>
        /\ step.mass = rocket.dry_mass + rocket.propellant
        /\ step.mass > 0
        /\ step.exc # "ZeroDivisionError:153"

====
